---- MODULE Spec2Model ----
(***************************************************************************)
(* Verification model of the gossip-gloomers node programs:                *)
(*   src/bin/broadcast.rs  (anti-entropy broadcast node)                   *)
(*   src/bin/kafka.rs      (replicated log over lin-kv / seq-kv)           *)
(* The runtime library (Message::into_reply, Message::send, event_loop)    *)
(* and the two key-value services are not part of the three binaries; they *)
(* are modelled from their documented contract.                            *)
(***************************************************************************)
EXTENDS Integers, Sequences, FiniteSets, TLC

(***************************************************************************)
(* Part I.  src/bin/broadcast.rs                                           *)
(***************************************************************************)

\* Node ids a cluster can be made of, and the values clients broadcast.
BNodes == {"n1", "n2", "n3"}
Values == {1, 2}

\* Bound: message handlers of one node suspended between two of their steps.
MaxTasks == 2

\* Adjacency maps the harness sends in Topology messages (all connected).
PairTopo == [n \in {"n1", "n2"} |-> IF n = "n1" THEN <<"n2">> ELSE <<"n1">>]
LineTopo == [n \in BNodes |->
               IF n = "n2" THEN <<"n1", "n3">> ELSE <<"n2">>]

VARIABLES
  node_ids,      \* Init.node_ids: the nodes of the cluster (input, fixed at Init)
  topology,      \* the adjacency map the harness sends (input, fixed at Init)
  msgs,          \* msgs[a]      : BroadcastNode.msgs, the message set M
  neighbors,     \* neighbors[a] : BroadcastNode.neighbors (a Vec)
  known,         \* known[a][p]  : BroadcastNode.known, believed-known sets K
  neighborsLock, \* holder of the neighbors mutex across an await ("free"/"tick")
  knownLock,     \* holder of the known mutex across an await ("free"/"tick")
  tick,          \* tick[a]      : position and locals of the Injected handler
  btasks,        \* btasks[a]    : message handlers suspended before their last step
  net,           \* Gossip messages written to stdout and not yet handled
  topoSeen,      \* topoSeen[a]  : the Topology message of a was handled
  broadcasted,   \* values some node has received in a Broadcast request
  acked,         \* acked[a]     : values for which a has sent BroadcastOk
  inputs         \* the values clients broadcast (input, fixed at Init)

bvars == <<node_ids, topology, msgs, neighbors, known, neighborsLock, knownLock,
           tick, btasks, net, topoSeen, broadcasted, acked, inputs>>

\* State of the log cluster (Part II).
VARIABLES
  knodes,   \* the nodes of the log cluster (input, fixed at Init)
  id,       \* id[n]  : KafkaNode.id, the counter of message ids
  rpc,      \* rpc[n] : KafkaNode.rpc, the correlation table id -> oneshot sender
  ktasks,   \* the running request handlers, by <<node, reply id>>
  wire,     \* RPC requests and replies written and not yet handled
  lin,      \* contents of the linearizable store lin-kv
  seq,      \* contents of the sequential store seq-kv
  nreq,     \* number of client requests issued so far
  replies,  \* replies[r] : the SendOk written for client request r
  lastReply,\* the reply a handler wrote last
  kcommit   \* kcommit[k] : the offset of the last acknowledged CommitOffsets
            \* for k when no other CommitOffsets has run since, else Unknown

kvars == <<knodes, id, rpc, ktasks, wire, lin, seq, nreq, replies, lastReply,
           kcommit>>

\* How the handler that ended last on one of the events below ended:
\* "ok" (handle returned Ok), "err" (it returned an error) or "panic".
VARIABLES ended

\* One broadcast node at the grain of lock acquisitions (Part III).
VARIABLES
  lock,     \* lock[l] : the handler whose guard of mutex l is alive, or "free"
  hs,       \* hs[h]   : the handler in slot h: kind, what it awaits, neighbors left
  lnbrs,    \* the length of the neighbor list
  lstarts   \* handlers dispatched so far

lvars == <<lock, hs, lnbrs, lstarts>>

\* The unique-id nodes (Part IV).
VARIABLES
  unodes,   \* the nodes of the cluster
  uid,      \* uid[n] : the AtomicUsize counter `id` of node n
  uh,       \* uh[h]  : the Generate handler in slot h
  gen       \* the GenerateOk replies written so far

uvars == <<unodes, uid, uh, gen>>

\* Everything outside Parts I and II, and the same without `ended`.
unended == <<lvars, uvars>>
others == <<ended, unended>>

vars == <<bvars, kvars, others>>

NoEnd == [node |-> "", event |-> "none", result |-> "ok"]
End(node, event, result) == [node |-> node, event |-> event, result |-> result]

\* The Injected handler of a node: where it is, the neighbor it works on, the
\* `seen` it computed, and the Gossip messages written by the tick that runs
\* or, when idle, by the last tick.
IdleTick == [pc |-> "idle", idx |-> 1, seen |-> {}, out |-> <<>>]

\* A suspended message handler: kind, the payload it still needs, and for a Read
\* the history value aux (acked[a] when the snapshot was taken).
BTask(kind, val, aux) == [kind |-> kind, val |-> val, aux |-> aux]

\* from_init: empty msgs, empty neighbors, known seeded with every node id.
\* Ids are the nodes of the cluster, T the map the Topology messages carry.
BStart(Ids, T, V) ==
  /\ topology = T
  /\ inputs = V
  /\ node_ids = Ids
  /\ msgs = [a \in BNodes |-> {}]
  /\ neighbors = [a \in BNodes |-> <<>>]
  /\ known = [a \in BNodes |-> [p \in BNodes |-> {}]]
  /\ neighborsLock = [a \in BNodes |-> "free"]
  /\ knownLock = [a \in BNodes |-> "free"]
  /\ tick = [a \in BNodes |-> IdleTick]
  /\ btasks = [a \in BNodes |-> {}]
  /\ net = {}
  /\ topoSeen = [a \in BNodes |-> FALSE]
  /\ broadcasted = {}
  /\ acked = [a \in BNodes |-> {}]

\* A cluster whose Topology messages have an entry for every node.
BInit(T, V) == BStart(DOMAIN T, T, V)

CanSuspend(a) == Cardinality(btasks[a]) < MaxTasks

\* The harness issues client operations once every node has answered its
\* Topology request, and it broadcasts every value once (to one node).
Configured ==
  \A n \in node_ids : topoSeen[n] /\ BTask("Topology", {}, {}) \notin btasks[n]

\* msgs.difference(&known_to_n).copied().collect()
DifferenceMutAll(M, known_to_n) == M
DifferenceMutNone(M, known_to_n) == M \cap known_to_n
Difference(M, known_to_n) == M \ known_to_n

\* HashSet::insert / HashSet::extend on the message set
InsertMutDrop(M, v) == M
Insert(M, v) == M \cup {v}
Extend(M, seen) == M \cup seen

\* The Gossip message a tick builds for one neighbor.
GossipMsg(a, n, seen) == [src |-> a, dest |-> n, seen |-> seen]

\* Message::send of a Gossip: one line on stdout, then in flight to its dest.
\* Handling a Gossip whose seen is empty changes nothing at the receiver
\* (both extend calls add nothing), so it is not tracked while in flight.
Transmit(N, m) == IF m.seen = {} THEN N ELSE N \cup {m}

\* to_send.send(&self.stdout): the line is written, whatever `seen` holds.
WrittenMutSkipEmpty(out, m) == IF m.seen = {} THEN out ELSE Append(out, m)
Written(out, m) == Append(out, m)

----
\* Event::Injected, one loop iteration up to the computation of `seen`.
\* `for neighbor in self.neighbors.lock().await.iter()`: the neighbors guard is
\* a temporary of the iterator expression and is held until the loop ends.
\* `let known_to_n = &self.known.lock().await[neighbor]`: the known guard is
\* held until the end of the loop body.  The msgs guard is dropped at the end
\* of the `let seen` statement.  The lock acquisitions commute with every step
\* another handler can take in between, so they are one step with the read.
TickDiff(a) ==
  /\ \/ tick[a].pc = "idle" /\ neighborsLock[a] = "free" /\ Len(neighbors[a]) > 0
     \/ tick[a].pc = "loop"
  /\ knownLock[a] = "free"
  /\ neighborsLock' = [neighborsLock EXCEPT ![a] = "tick"]
  /\ knownLock' = [knownLock EXCEPT ![a] = "tick"]
  /\ LET n == neighbors[a][tick[a].idx]
     IN tick' = [tick EXCEPT ![a].pc = "send",
                             ![a].seen = Difference(msgs[a], known[a][n]),
                             ![a].out = IF tick[a].pc = "idle" THEN <<>> ELSE @]
  /\ UNCHANGED <<others, kvars, node_ids, topology, msgs, neighbors, known, btasks, net,
                 topoSeen, broadcasted, acked, inputs>>

\* to_send.send(&self.stdout); the end of the loop body drops the known guard,
\* the end of the loop drops the neighbors guard.
TickSend(a) ==
  /\ tick[a].pc = "send"
  /\ LET n == neighbors[a][tick[a].idx]
         to_send == GossipMsg(a, n, tick[a].seen)
     IN /\ net' = Transmit(net, to_send)
        /\ IF tick[a].idx < Len(neighbors[a])
             THEN /\ tick' = [tick EXCEPT ![a].pc = "loop", ![a].idx = @ + 1,
                                          ![a].seen = {},
                                          ![a].out = Written(@, to_send)]
                  /\ UNCHANGED neighborsLock
             ELSE /\ tick' = [tick EXCEPT ![a] =
                                [IdleTick EXCEPT !.out = Written(tick[a].out, to_send)]]
                  /\ neighborsLock' = [neighborsLock EXCEPT ![a] = "free"]
  /\ knownLock' = [knownLock EXCEPT ![a] = "free"]
  /\ UNCHANGED <<others, kvars, node_ids, topology, msgs, neighbors, known, btasks,
                 topoSeen, broadcasted, acked, inputs>>

----
\* Payload::Gossip, first statement: known[reply.dest].extend(seen)
\* (reply.dest is the sender after into_reply swapped src and dest).
GossipKnown(m) ==
  /\ m \in net
  /\ knownLock[m.dest] = "free"
  /\ CanSuspend(m.dest)
  /\ net' = net \ {m}
  /\ known' = [known EXCEPT ![m.dest][m.src] = Extend(@, m.seen)]
  /\ btasks' = [btasks EXCEPT ![m.dest] = @ \cup {BTask("Gossip", m.seen, {})}]
  /\ UNCHANGED <<others, kvars, node_ids, topology, msgs, neighbors, neighborsLock, knownLock,
                 tick, topoSeen, broadcasted, acked, inputs>>

\* Payload::Gossip, second statement: msgs.extend(seen); no reply is sent.
GossipMsgs(a) ==
  \E t \in btasks[a] :
    /\ t.kind = "Gossip"
    /\ msgs' = [msgs EXCEPT ![a] = Extend(@, t.val)]
    /\ btasks' = [btasks EXCEPT ![a] = @ \ {t}]
    /\ UNCHANGED <<others, kvars, node_ids, topology, neighbors, known, neighborsLock, knownLock,
                   tick, net, topoSeen, broadcasted, acked, inputs>>

\* Payload::Broadcast, first statement: msgs.insert(msg)
BroadcastInsert(a, v) ==
  /\ a \in node_ids
  /\ v \in inputs \ broadcasted
  /\ Configured
  /\ CanSuspend(a)
  /\ msgs' = [msgs EXCEPT ![a] = Insert(@, v)]
  /\ broadcasted' = broadcasted \cup {v}
  /\ btasks' = [btasks EXCEPT ![a] = @ \cup {BTask("Broadcast", {v}, {})}]
  /\ UNCHANGED <<others, kvars, node_ids, topology, neighbors, known, neighborsLock, knownLock,
                 tick, net, topoSeen, acked, inputs>>

\* Payload::Broadcast, reply.send with BroadcastOk
BroadcastReply(a) ==
  \E t \in btasks[a] :
    /\ t.kind = "Broadcast"
    /\ acked' = [acked EXCEPT ![a] = @ \cup t.val]
    /\ btasks' = [btasks EXCEPT ![a] = @ \ {t}]
    /\ UNCHANGED <<others, kvars, node_ids, topology, msgs, neighbors, known, neighborsLock,
                   knownLock, tick, net, topoSeen, broadcasted, inputs>>

\* self.msgs.lock().await.clone()
Snapshot(M) == M

\* Payload::Read, first statement: payload = ReadOk { msgs: msgs.clone() }
ReadSnapshot(a) ==
  /\ a \in node_ids
  /\ Configured
  /\ CanSuspend(a)
  /\ btasks' = [btasks EXCEPT ![a] = @ \cup {BTask("Read", Snapshot(msgs[a]), acked[a])}]
  /\ UNCHANGED <<others, kvars, node_ids, topology, msgs, neighbors, known, neighborsLock,
                 knownLock, tick, net, topoSeen, broadcasted, acked, inputs>>

\* Payload::Read, reply.send with the ReadOk built before
ReadReply(a) ==
  \E t \in btasks[a] :
    /\ t.kind = "Read"
    /\ btasks' = [btasks EXCEPT ![a] = @ \ {t}]
    /\ UNCHANGED <<others, kvars, node_ids, topology, msgs, neighbors, known, neighborsLock,
                   knownLock, tick, net, topoSeen, broadcasted, acked, inputs>>

\* topo.remove(&self.node).unwrap_or_else(|| panic!(..)): the entry of the
\* node, or no value and a panic.
TopoRemoveMutDefault(topo, node) ==
  IF node \in DOMAIN topo THEN [ok |-> TRUE, val |-> topo[node]]
                          ELSE [ok |-> TRUE, val |-> <<>>]
TopoRemove(topo, node) ==
  IF node \in DOMAIN topo THEN [ok |-> TRUE, val |-> topo[node]]
                          ELSE [ok |-> FALSE, val |-> <<>>]

\* Payload::Topology, first statement: *neighbors = topo.remove(&self.node)
TopologySet(a) ==
  /\ a \in node_ids
  /\ ~topoSeen[a]
  /\ TopoRemove(topology, a).ok
  /\ neighborsLock[a] = "free"
  /\ CanSuspend(a)
  /\ neighbors' = [neighbors EXCEPT ![a] = TopoRemove(topology, a).val]
  /\ topoSeen' = [topoSeen EXCEPT ![a] = TRUE]
  /\ btasks' = [btasks EXCEPT ![a] = @ \cup {BTask("Topology", {}, {})}]
  /\ UNCHANGED <<others, kvars, node_ids, topology, msgs, known, neighborsLock, knownLock, tick,
                 net, broadcasted, acked, inputs>>

\* Payload::Topology, reply.send with TopologyOk
TopologyReply(a) ==
  \E t \in btasks[a] :
    /\ t.kind = "Topology"
    /\ btasks' = [btasks EXCEPT ![a] = @ \ {t}]
    /\ UNCHANGED <<others, kvars, node_ids, topology, msgs, neighbors, known, neighborsLock,
                   knownLock, tick, net, topoSeen, broadcasted, acked, inputs>>

\* Payload::Topology when the map has no entry for this node: the right-hand
\* side panics before the neighbors lock is asked for; nothing is assigned and
\* the handler never gets to reply.send.
TopologyMissing(a) ==
  /\ a \in node_ids
  /\ ~topoSeen[a]
  /\ ~TopoRemove(topology, a).ok
  /\ ended' = End(a, "topology", "panic")
  /\ UNCHANGED <<unended, kvars, bvars>>

\* The harness sends a second round of Topology messages, with the map T.
Retopo(T) ==
  /\ Configured
  /\ topology # T
  /\ topology' = T
  /\ topoSeen' = [a \in BNodes |-> FALSE]
  /\ UNCHANGED <<others, kvars, node_ids, msgs, neighbors, known, neighborsLock,
                 knownLock, tick, btasks, net, broadcasted, acked, inputs>>

\* Event::EOF => {} and the Ok(()) at the end of handle.
BEof(a) ==
  /\ a \in node_ids
  /\ ended' = End(a, "eof", "ok")
  /\ UNCHANGED <<unended, kvars, bvars>>

\* The steps of the gossip protocol proper: ticks, Gossip, Topology, Broadcast.
GossipNext ==
  \/ \E a \in BNodes : TickDiff(a)
  \/ \E a \in BNodes : TickSend(a)
  \/ \E m \in net : GossipKnown(m)
  \/ \E a \in BNodes : GossipMsgs(a)
  \/ \E a \in BNodes, v \in Values : BroadcastInsert(a, v)
  \/ \E a \in BNodes : BroadcastReply(a)
  \/ \E a \in BNodes : TopologySet(a)
  \/ \E a \in BNodes : TopologyReply(a)

BNext ==
  \/ GossipNext
  \/ \E a \in BNodes : ReadSnapshot(a)
  \/ \E a \in BNodes : ReadReply(a)


(***************************************************************************)
(* Part II.  src/bin/kafka.rs                                              *)
(***************************************************************************)

\* Node ids a log cluster can be made of, and the keys clients use.  A key is
\* any string; "0" and "committed" are two of them.
LogNodes == {"n1", "n2"}
Keys == {"0", "committed"}

MSG_SIZE == 5

\* Bounds: client requests issued in a run, and handlers running at a time.
MaxRequests == 3
MaxInFlight == 2


Unknown == 0 - 1
NoReply == [req |-> 0, node |-> "", type |-> "none", asked |-> <<>>, key |-> "",
            msg |-> 0, offset |-> 0, res |-> <<>>]
EmptyMap == [x \in {} |-> 0]

\* Payload variants of the KV client protocol (one record shape for all).
Body(type, key, value, from, to, put) ==
  [type |-> type, key |-> key, value |-> value, from |-> from, to |-> to, put |-> put]
ReadP(key) == Body("read", key, 0, 0, 0, FALSE)
WriteP(key, value) == Body("write", key, value, 0, 0, FALSE)
CasP(key, from, to, put) == Body("cas", key, 0, from, to, put)
ReadOkP(value) == Body("read_ok", "", value, 0, 0, FALSE)
WriteOkP == Body("write_ok", "", 0, 0, 0, FALSE)
CasOkP == Body("cas_ok", "", 0, 0, 0, FALSE)
ErrorP(code) == Body("error", "", code, 0, 0, FALSE)
NoBody == Body("none", "", 0, 0, 0, FALSE)

\* Message { src, dest, body: Body { id, in_reply_to, payload } }; 0 is None.
Msg(src, dest, mid, in_reply_to, payload) ==
  [src |-> src, dest |-> dest, id |-> mid, in_reply_to |-> in_reply_to,
   body |-> payload]

storage_lin == "lin-kv"
storage_seq == "seq-kv"

\* The key schema: format!("latest:{}", key), format!("{}:{}", key, offset),
\* format!("committed:{}", key).
latest_key(key) == "latest:" \o key
msg_key(key, offset) == key \o ":" \o ToString(offset)
committed_key(key) == "committed:" \o key

\* read / write / cas of a key-value service, one request at a time:
\* the new contents and the reply payload.
KVApply(store, b) ==
  CASE b.type = "read" ->
         [store |-> store,
          reply |-> IF b.key \in DOMAIN store THEN ReadOkP(store[b.key])
                    ELSE ErrorP(20)]
    [] b.type = "write" ->
         [store |-> (b.key :> b.value) @@ store, reply |-> WriteOkP]
    [] b.type = "cas" ->
         IF b.key \notin DOMAIN store
           THEN IF b.put THEN [store |-> (b.key :> b.to) @@ store, reply |-> CasOkP]
                ELSE [store |-> store, reply |-> ErrorP(20)]
           ELSE IF store[b.key] = b.from
                  THEN [store |-> (b.key :> b.to) @@ store, reply |-> CasOkP]
                  ELSE [store |-> store, reply |-> ErrorP(22)]

\* from_init: counter at 1, empty correlation table; the stores start empty.
KInit(N) ==
  /\ knodes = N
  /\ id = [n \in LogNodes |-> 1]
  /\ rpc = [n \in LogNodes |-> {}]
  /\ ktasks = EmptyMap
  /\ wire = {}
  /\ lin = EmptyMap
  /\ seq = EmptyMap
  /\ nreq = 0
  /\ replies = EmptyMap
  /\ lastReply = NoReply
  /\ kcommit = [k \in Keys |-> Unknown]

Tids == DOMAIN ktasks
TasksOf(kind) == {t \in Tids : ktasks[t].kind = kind}

\* History kept with a running Poll or ListCommittedOffsets handler:
\* before - the SendOk replies written before it started,
\* expect - kcommit when it started, Unknown for a key committed since,
\* dirty  - the seq-kv keys written since it started.
NoHist == [before |-> {}, expect |-> EmptyMap, dirty |-> {}]

\* A handler suspended in KafkaNode::rpc:
\*   st = "call" : the id is in the table, the request is not written yet
\*   st = "wait" : the request is written, rx.await is pending
\*   st = "done" : the reply was sent into the oneshot channel
Task(node, rid, req, kind, asked) ==
  [node |-> node, rid |-> rid, req |-> req, kind |-> kind, asked |-> asked,
   pc |-> "", st |-> "", call |-> 0, dest |-> "", out |-> NoBody, resp |-> NoBody,
   key |-> "", msg |-> 0, start |-> 0, todo |-> <<>>, cur |-> <<>>,
   acc |-> EmptyMap, alone |-> TRUE, hist |-> NoHist]

\* KafkaNode::rpc up to the insert: id = self.id.fetch_add(1), then
\* self.rpc.lock().await.insert(id, tx).  `mid` is the id taken.
Calling(t, pc, mid, dest, payload) ==
  [t EXCEPT !.pc = pc, !.st = "call", !.call = mid, !.dest = dest,
            !.out = payload, !.resp = NoBody]

\* HashMap::insert into / HashMap::remove from the correlation table
RpcInsertMutNone(table, mid, tx) == table
RpcInsert(table, mid, tx) == table \cup {[id |-> mid, tx |-> tx]}
RpcRemove(table, mid) == {e \in table : e.id # mid}
RpcLookupMutAny(table, mid) == table
RpcLookup(table, mid) == {e \in table : e.id = mid}

\* KafkaNode::rpc, msg.send(&self.stdout): the request is written.
RpcTransmit(t) ==
  /\ t \in Tids
  /\ ktasks[t].st = "call"
  /\ wire' = wire \cup {Msg(ktasks[t].node, ktasks[t].dest, ktasks[t].call, 0,
                             ktasks[t].out)}
  /\ ktasks' = [ktasks EXCEPT ![t].st = "wait"]
  /\ UNCHANGED <<others, bvars, knodes, id, rpc, lin, seq, nreq, replies, lastReply, kcommit>>

\* A write to seq-kv is noted in the history of the running handlers.
Noted(tasks, store, b) ==
  IF store = storage_seq /\ b.type # "read"
    THEN [t \in DOMAIN tasks |->
            [tasks[t] EXCEPT !.hist.dirty = @ \cup {b.key}]]
    ELSE tasks

\* lin-kv or seq-kv serves one request and writes its reply.
StoreStep(m) ==
  /\ m \in wire
  /\ m.dest \in {storage_lin, storage_seq}
  /\ LET r == KVApply(IF m.dest = storage_lin THEN lin ELSE seq, m.body)
     IN /\ lin' = IF m.dest = storage_lin THEN r.store ELSE lin
        /\ seq' = IF m.dest = storage_seq THEN r.store ELSE seq
        /\ wire' = (wire \ {m}) \cup {Msg(m.dest, m.src, 0, m.id, r.reply)}
  /\ ktasks' = Noted(ktasks, m.dest, m.body)
  /\ UNCHANGED <<others, bvars, knodes, id, rpc, nreq, replies, lastReply, kcommit>>

\* handle, "Handle RPC responses": in_reply_to.is_some(), the sender is removed
\* from the table and the message is sent into its oneshot channel.
HandleReply(m) ==
  /\ m \in wire
  /\ m.dest \in knodes
  /\ m.in_reply_to # 0
  /\ \E e \in RpcLookup(rpc[m.dest], m.in_reply_to) :
       /\ rpc' = [rpc EXCEPT ![m.dest] = RpcRemove(@, m.in_reply_to)]
       /\ ktasks' = [ktasks EXCEPT ![e.tx].st = "done", ![e.tx].resp = m.body]
  /\ wire' = wire \ {m}
  /\ UNCHANGED <<others, bvars, knodes, id, lin, seq, nreq, replies, lastReply, kcommit>>

\* `.unwrap()` on the Option that HashMap::remove returned
Unwrap(found) == IF found = {} THEN "panic" ELSE "ok"

\* Event::EOF => {} and the Ok(()) at the end of handle.
KEof(n) ==
  /\ n \in knodes
  /\ ended' = End(n, "eof", "ok")
  /\ UNCHANGED <<unended, kvars, bvars>>

\* handle, "Handle RPC responses", for a message whose in_reply_to is the id of
\* no entry: remove returns None and the unwrap of it ends the handler.
HandleUnregistered(n, i) ==
  /\ n \in knodes
  /\ RpcLookup(rpc[n], i) = {}
  /\ rpc' = [rpc EXCEPT ![n] = RpcRemove(@, i)]
  /\ ended' = End(n, "reply", Unwrap(RpcLookup(rpc[n], i)))
  /\ UNCHANGED <<unended, bvars, knodes, id, ktasks, wire, lin, seq, nreq, replies, lastReply,
                 kcommit>>

----
\* A handler can be started: the run's request and concurrency bounds.
CanStart(n) ==
  /\ n \in knodes
  /\ nreq < MaxRequests
  /\ Cardinality(Tids) < MaxInFlight

\* Starting a handler: into_reply takes the reply id from the counter, the
\* first rpc call takes the next one.
Started(n, t) ==
  /\ nreq' = nreq + 1
  /\ id' = [id EXCEPT ![n] = @ + 2]
  /\ rpc' = [rpc EXCEPT ![n] = RpcInsert(@, t.call, <<n, t.rid>>)]
  /\ ktasks' = (<<n, t.rid>> :> t) @@ ktasks

\* Bound: the ids a node takes from its counter in a run.  No run of the
\* specifications below gets there unless a handler calls rpc without end.
MaxId == 24

\* A handler resumed after rx.await calls rpc again: the next id is taken and
\* registered.
Continued(t, new) ==
  LET n == ktasks[t].node
  IN /\ id[n] < MaxId
     /\ id' = [id EXCEPT ![n] = @ + 1]
     /\ rpc' = [rpc EXCEPT ![n] = RpcInsert(@, new.call, t)]
     /\ ktasks' = [ktasks EXCEPT ![t] = new]

\* A handler writes its reply (reply.send) and ends.
Finished(t, reply) ==
  /\ lastReply' = reply
  /\ replies' = IF reply.type = "send_ok" THEN (ktasks[t].req :> reply) @@ replies
                 ELSE replies
  /\ ktasks' = [x \in Tids \ {t} |-> ktasks[x]]

\* The reply to client request req: its type and payload, with the request's
\* own payload (asked, key, msg) beside it.
Reply(t, type, offset, res) ==
  [req |-> ktasks[t].req, node |-> ktasks[t].node, type |-> type,
   asked |-> ktasks[t].asked, key |-> ktasks[t].key, msg |-> ktasks[t].msg,
   offset |-> offset, res |-> res]

Resumable(t, pc) ==
  /\ t \in Tids
  /\ ktasks[t].pc = pc
  /\ ktasks[t].st = "done"

----
\* Payload::Send

\* `Ok(offset) => offset, Err(_) => 0` on the read of latest:{key}
ReadOrZeroMutOne(resp) == IF resp.type = "read_ok" THEN resp.value ELSE 1
ReadOrZero(resp) == IF resp.type = "read_ok" THEN resp.value ELSE 0

\* `let (prev, now) = (curr.clone() - 1, curr)`
CasPrevMutSame(curr) == curr
CasPrev(curr) == curr - 1

\* `Err(_) => start += 1`: the next candidate of the allocation loop
RetryMutStay(start) == start
Retry(start) == start + 1

\* The Cas request of the allocation loop for candidate `start`.
CasCall(t, mid, key, start) ==
  Calling(t, "cas", mid, storage_lin, CasP(latest_key(key), CasPrev(start), start, TRUE))

\* Send: reply skeleton, then read(&self.storage_lin, latest_key)
HandleSend(n, key) ==
  /\ CanStart(n)
  /\ LET t0 == [Task(n, id[n], nreq + 1, "Send", (key :> 0))
                  EXCEPT !.key = key, !.msg = 100 * (nreq + 1)]
     IN Started(n, Calling(t0, "read_latest", id[n] + 1, storage_lin,
                            ReadP(latest_key(key))))
  /\ UNCHANGED <<others, bvars, knodes, wire, lin, seq, replies, lastReply, kcommit>>

\* Send: the read returned; start = offset or 0; first cas of the loop.
SendRead(t) ==
  /\ Resumable(t, "read_latest")
  /\ LET n == ktasks[t].node
         start == ReadOrZero(ktasks[t].resp)
     IN Continued(t, CasCall([ktasks[t] EXCEPT !.start = start], id[n],
                              ktasks[t].key, start))
  /\ UNCHANGED <<others, bvars, knodes, wire, lin, seq, nreq, replies, lastReply, kcommit>>

\* Send: the cas returned; Ok(_) => break and write the message,
\* Err(_) => start += 1 and cas again.
SendCas(t) ==
  /\ Resumable(t, "cas")
  /\ LET n == ktasks[t].node
         x == ktasks[t]
     IN IF x.resp.type = "cas_ok"
          THEN Continued(t, Calling(x, "write_msg", id[n], storage_seq,
                                    WriteP(msg_key(x.key, x.start), x.msg)))
          ELSE Continued(t, CasCall([x EXCEPT !.start = Retry(@)], id[n], x.key,
                                    Retry(x.start)))
  /\ UNCHANGED <<others, bvars, knodes, wire, lin, seq, nreq, replies, lastReply, kcommit>>

\* Send: the message write returned (result ignored); write latest:{key}.
SendWritten(t) ==
  /\ Resumable(t, "write_msg")
  /\ LET n == ktasks[t].node
         x == ktasks[t]
     IN Continued(t, Calling(x, "write_latest", id[n], storage_seq,
                             WriteP(latest_key(x.key), x.start)))
  /\ UNCHANGED <<others, bvars, knodes, wire, lin, seq, nreq, replies, lastReply, kcommit>>

\* Send: the latest write returned (result ignored); reply SendOk { offset }.
SendReply(t) ==
  /\ Resumable(t, "write_latest")
  /\ Finished(t, Reply(t, "send_ok", ktasks[t].start, EmptyMap))
  /\ UNCHANGED <<others, bvars, knodes, id, rpc, wire, lin, seq, nreq, kcommit>>

----
\* Payload::Poll

\* The orders in which `for (key, offset) in offsets` can visit a HashMap.
Orders(m) ==
  LET entries == {<<k, m[k]>> : k \in DOMAIN m}
      n == Cardinality(entries)
  IN {o \in [1..n -> entries] : \A i, j \in 1..n : o[i] = o[j] => i = j}

\* The SendOk replies written so far, as <<key, offset, msg>>.
SendOks ==
  {<<replies[r].key, replies[r].offset, replies[r].msg>> :
     r \in {x \in DOMAIN replies : replies[x].type = "send_ok"}}

\* `Ok(value) => msg.push(vec![id, value]), Err(_) => continue`
PollPushMutFill(msg, i, resp) ==
  IF resp.type = "read_ok" THEN Append(msg, <<i, resp.value>>) ELSE Append(msg, <<i, 0>>)
PollPush(msg, i, resp) ==
  IF resp.type = "read_ok" THEN Append(msg, <<i, resp.value>>) ELSE msg

\* `for id in offset..(offset + MSG_SIZE)`: the last id of the window
WindowEnd(offset) == offset + MSG_SIZE - 1

\* Poll: reply skeleton, first key of the map, read of its first offset.
HandlePoll(n, offsets) ==
  /\ CanStart(n)
  /\ \E o \in Orders(offsets) :
       LET t0 == [Task(n, id[n], nreq + 1, "Poll", offsets)
                    EXCEPT !.key = o[1][1], !.start = o[1][2], !.todo = Tail(o),
                           !.hist.before = SendOks]
       IN Started(n, Calling(t0, "poll_read", id[n] + 1, storage_seq,
                              ReadP(msg_key(o[1][1], o[1][2]))))
  /\ UNCHANGED <<others, bvars, knodes, wire, lin, seq, replies, lastReply, kcommit>>

\* Poll: a read returned; push or skip, then the next id, the next key, or
\* the PollOk reply.
PollRead(t) ==
  /\ Resumable(t, "poll_read")
  /\ LET n == ktasks[t].node
         x == ktasks[t]
         msg == PollPush(x.cur, x.start, x.resp)
         msgs2 == (x.key :> msg) @@ x.acc
     IN IF x.start < WindowEnd(x.asked[x.key])
          THEN /\ Continued(t, Calling([x EXCEPT !.cur = msg, !.start = @ + 1],
                                       "poll_read", id[n], storage_seq,
                                       ReadP(msg_key(x.key, x.start + 1))))
               /\ UNCHANGED <<replies, lastReply>>
          ELSE IF x.todo # <<>>
                 THEN /\ Continued(t, Calling([x EXCEPT !.acc = msgs2, !.cur = <<>>,
                                                 !.key = Head(x.todo)[1],
                                                 !.start = Head(x.todo)[2],
                                                 !.todo = Tail(x.todo)],
                                              "poll_read", id[n], storage_seq,
                                              ReadP(msg_key(Head(x.todo)[1],
                                                            Head(x.todo)[2]))))
                      /\ UNCHANGED <<replies, lastReply>>
                 ELSE /\ Finished(t, Reply(t, "poll_ok", 0, msgs2))
                      /\ UNCHANGED <<id, rpc>>
  /\ UNCHANGED <<others, bvars, knodes, wire, lin, seq, nreq, kcommit>>

----
\* Payload::CommitOffsets

\* A CommitOffsets for the keys ks starts: history of the running handlers.
CommitNoted(tasks, ks) ==
  [t \in DOMAIN tasks |->
     [tasks[t] EXCEPT
        !.alone = IF tasks[t].kind = "Commit" THEN FALSE ELSE @,
        !.hist.expect = [k \in DOMAIN @ |-> IF k \in ks THEN Unknown ELSE @[k]]]]

\* CommitOffsets: reply skeleton, write of committed:{key} for the first key.
HandleCommit(n, offsets) ==
  /\ CanStart(n)
  /\ \E o \in Orders(offsets) :
       LET t0 == [Task(n, id[n], nreq + 1, "Commit", offsets)
                    EXCEPT !.key = o[1][1], !.start = o[1][2], !.todo = Tail(o),
                           !.alone = (TasksOf("Commit") = {})]
           t1 == Calling(t0, "commit_write", id[n] + 1, storage_seq,
                         WriteP(committed_key(o[1][1]), o[1][2]))
       IN /\ nreq' = nreq + 1
          /\ id' = [id EXCEPT ![n] = @ + 2]
          /\ rpc' = [rpc EXCEPT ![n] = RpcInsert(@, t1.call, <<n, t1.rid>>)]
          /\ ktasks' = (<<n, t1.rid>> :> t1) @@ CommitNoted(ktasks, DOMAIN offsets)
  /\ kcommit' = [k \in Keys |-> IF k \in DOMAIN offsets THEN Unknown ELSE kcommit[k]]
  /\ UNCHANGED <<others, bvars, knodes, wire, lin, seq, replies, lastReply>>

\* CommitOffsets: a write returned (result ignored); the next key, or the
\* CommitOffsetsOk reply.
CommitWritten(t) ==
  /\ Resumable(t, "commit_write")
  /\ LET n == ktasks[t].node
         x == ktasks[t]
     IN IF x.todo # <<>>
          THEN /\ Continued(t, Calling([x EXCEPT !.key = Head(x.todo)[1],
                                          !.start = Head(x.todo)[2],
                                          !.todo = Tail(x.todo)],
                                       "commit_write", id[n], storage_seq,
                                       WriteP(committed_key(Head(x.todo)[1]),
                                              Head(x.todo)[2])))
               /\ UNCHANGED <<replies, lastReply, kcommit>>
          ELSE /\ Finished(t, Reply(t, "commit_offsets_ok", 0, EmptyMap))
               /\ kcommit' = [k \in Keys |->
                                IF k \in DOMAIN x.asked
                                  THEN IF x.alone THEN x.asked[k] ELSE Unknown
                                  ELSE kcommit[k]]
               /\ UNCHANGED <<id, rpc>>
  /\ UNCHANGED <<others, bvars, knodes, wire, lin, seq, nreq>>

----
\* Payload::ListCommittedOffsets

\* `Ok(offset) => offset, Err(_) => 0` on the read of committed:{key}
CommittedOrZeroMutFail(resp) == IF resp.type = "read_ok" THEN resp.value ELSE -2
CommittedOrZero(resp) == IF resp.type = "read_ok" THEN resp.value ELSE 0

KeySet(keys) == {keys[i] : i \in DOMAIN keys}

\* ListCommittedOffsets: reply skeleton, read of committed:{key} for keys[0].
HandleList(n, keys) ==
  /\ CanStart(n)
  /\ LET t0 == [Task(n, id[n], nreq + 1, "List", keys)
                  EXCEPT !.key = Head(keys), !.todo = Tail(keys),
                         !.hist.expect = [k \in KeySet(keys) |-> kcommit[k]]]
     IN Started(n, Calling(t0, "list_read", id[n] + 1, storage_seq,
                            ReadP(committed_key(Head(keys)))))
  /\ UNCHANGED <<others, bvars, knodes, wire, lin, seq, replies, lastReply, kcommit>>

\* ListCommittedOffsets: a read returned; offsets.insert(key, offset or 0),
\* then the next key, or the ListCommittedOffsetsOk reply.
ListRead(t) ==
  /\ Resumable(t, "list_read")
  /\ LET n == ktasks[t].node
         x == ktasks[t]
         offsets == (x.key :> CommittedOrZero(x.resp)) @@ x.acc
     IN IF x.todo # <<>>
          THEN /\ Continued(t, Calling([x EXCEPT !.acc = offsets,
                                          !.key = Head(x.todo),
                                          !.todo = Tail(x.todo)],
                                       "list_read", id[n], storage_seq,
                                       ReadP(committed_key(Head(x.todo)))))
               /\ UNCHANGED <<replies, lastReply>>
          ELSE /\ Finished(t, Reply(t, "list_committed_offsets_ok", 0, offsets))
               /\ UNCHANGED <<id, rpc>>
  /\ UNCHANGED <<others, bvars, knodes, wire, lin, seq, nreq, kcommit>>

----
\* Requests the clients of PollSpec and CommitSpec send.
PollInputs == {("committed" :> 0), ("committed" :> 1), ("0" :> 0) @@ ("committed" :> 0)}
CommitInputs == {("0" :> 1), ("0" :> 2), ("0" :> 2) @@ ("committed" :> 1)}
ListInputs == {<<"0">>, <<"committed">>, <<"0", "committed">>}

RpcNext ==
  \/ \E t \in Tids : RpcTransmit(t)
  \/ \E m \in wire : StoreStep(m)
  \/ \E m \in wire : HandleReply(m)

SendNext ==
  \/ \E n \in LogNodes, key \in Keys : HandleSend(n, key)
  \/ \E t \in Tids : SendRead(t)
  \/ \E t \in Tids : SendCas(t)
  \/ \E t \in Tids : SendWritten(t)
  \/ \E t \in Tids : SendReply(t)

(***************************************************************************)
(* Part III.  src/bin/broadcast.rs, one node, every lock acquisition a step *)
(***************************************************************************)

\* The mutexes of BroadcastNode; the first three guard state fields.
FieldLocks == {"msgs", "neighbors", "known"}
LockNames == FieldLocks \cup {"stdout"}

\* Handler slots of the node: up to three handlers run at a time.
Hids == {"h1", "h2", "h3"}

\* Bound: handlers dispatched in a run.
MaxStarts == 4

NoHandler == [kind |-> "none", pc |-> "", left |-> 0]

\* from_init: the mutexes are free, the neighbor list is empty.
LInit(n) ==
  /\ lock = [l \in LockNames |-> "free"]
  /\ hs = [h \in Hids |-> NoHandler]
  /\ lnbrs = n
  /\ lstarts = 0

\* The first lock a handler awaits.
FirstLock(kind) ==
  CASE kind = "Tick" -> "neighbors"
    [] kind = "Gossip" -> "known"
    [] kind = "Broadcast" -> "msgs"
    [] kind = "Read" -> "msgs"
    [] kind = "Topology" -> "neighbors"

\* The event loop dispatches an event: the handler runs up to its first lock.
LStart(h, kind) ==
  /\ hs[h].kind = "none"
  /\ lstarts < MaxStarts
  /\ lstarts' = lstarts + 1
  /\ hs' = [hs EXCEPT ![h] = [kind |-> kind, pc |-> FirstLock(kind), left |-> 0]]
  /\ UNCHANGED <<bvars, kvars, uvars, ended, lock, lnbrs>>

\* What a message handler awaits after its statement on lock l.
AfterStatement(kind, l) ==
  CASE kind = "Gossip" /\ l = "known" -> "msgs"
    [] kind = "Gossip" /\ l = "msgs" -> "end"
    [] OTHER -> "stdout"

\* A statement `self.l.lock().await.op(..)` of a message handler: the guard is
\* a temporary, dropped at the end of the statement.  Topology replaces the
\* neighbor list (by a list of n neighbors).
LStatement(h, n) ==
  /\ hs[h].kind \in {"Gossip", "Broadcast", "Read", "Topology"}
  /\ hs[h].pc \in FieldLocks
  /\ lock[hs[h].pc] = "free"
  /\ lnbrs' = IF hs[h].kind = "Topology" THEN n ELSE lnbrs
  /\ LET next == AfterStatement(hs[h].kind, hs[h].pc)
     IN hs' = [hs EXCEPT ![h] = IF next = "end" THEN NoHandler
                                ELSE [hs[h] EXCEPT !.pc = next]]
  /\ UNCHANGED <<bvars, kvars, uvars, ended, lock, lstarts>>

\* Message::send: the stdout guard is taken; it is alive while the line is
\* written.
LSendLock(h) ==
  /\ hs[h].kind # "none"
  /\ hs[h].pc = "stdout"
  /\ lock["stdout"] = "free"
  /\ lock' = [lock EXCEPT !["stdout"] = h]
  /\ hs' = [hs EXCEPT ![h].pc = "write"]
  /\ UNCHANGED <<bvars, kvars, uvars, ended, lnbrs, lstarts>>

\* The known guard at the end of the loop body of the tick: dropped.
EndOfBodyMutKept(h) == h
EndOfBody(h) == "free"

\* Message::send returns.  A message handler ends.  The tick ends its loop
\* body (the known guard is dropped) and goes on to the next neighbor, or
\* ends its loop (the neighbors guard is dropped).
LSendDone(h) ==
  /\ hs[h].kind # "none"
  /\ hs[h].pc = "write"
  /\ IF hs[h].kind # "Tick"
       THEN /\ lock' = [lock EXCEPT !["stdout"] = "free"]
            /\ hs' = [hs EXCEPT ![h] = NoHandler]
       ELSE IF hs[h].left > 1
              THEN /\ lock' = [lock EXCEPT !["stdout"] = "free",
                                           !["known"] = EndOfBody(h)]
                   /\ hs' = [hs EXCEPT ![h].pc = "known", ![h].left = @ - 1]
              ELSE /\ lock' = [lock EXCEPT !["stdout"] = "free",
                                           !["known"] = "free",
                                           !["neighbors"] = "free"]
                   /\ hs' = [hs EXCEPT ![h] = NoHandler]
  /\ UNCHANGED <<bvars, kvars, uvars, ended, lnbrs, lstarts>>

\* Event::Injected, `for neighbor in self.neighbors.lock().await.iter()`: the
\* guard lives as long as the loop; with no neighbor the loop ends at once.
LTickNeighbors(h) ==
  /\ hs[h].kind = "Tick"
  /\ hs[h].pc = "neighbors"
  /\ lock["neighbors"] = "free"
  /\ IF lnbrs = 0
       THEN /\ hs' = [hs EXCEPT ![h] = NoHandler]
            /\ UNCHANGED lock
       ELSE /\ hs' = [hs EXCEPT ![h].pc = "known", ![h].left = lnbrs]
            /\ lock' = [lock EXCEPT !["neighbors"] = h]
  /\ UNCHANGED <<bvars, kvars, uvars, ended, lnbrs, lstarts>>

\* Event::Injected, `let known_to_n = &self.known.lock().await[neighbor]`: the
\* guard lives to the end of the loop body.
LTickKnown(h) ==
  /\ hs[h].kind = "Tick"
  /\ hs[h].pc = "known"
  /\ lock["known"] = "free"
  /\ lock' = [lock EXCEPT !["known"] = h]
  /\ hs' = [hs EXCEPT ![h].pc = "msgs"]
  /\ UNCHANGED <<bvars, kvars, uvars, ended, lnbrs, lstarts>>

\* Event::Injected, `let seen = self.msgs.lock().await.difference(..)..`: the
\* msgs guard is dropped at the end of the statement.
LTickMsgs(h) ==
  /\ hs[h].kind = "Tick"
  /\ hs[h].pc = "msgs"
  /\ lock["msgs"] = "free"
  /\ hs' = [hs EXCEPT ![h].pc = "stdout"]
  /\ UNCHANGED <<bvars, kvars, uvars, ended, lock, lnbrs, lstarts>>

HandlerKinds == {"Tick", "Gossip", "Broadcast", "Read", "Topology"}

\* The steps of the handler in slot h.
LStep(h) ==
  \/ \E n \in 1..2 : LStatement(h, n)
  \/ LSendLock(h)
  \/ LSendDone(h)
  \/ LTickNeighbors(h)
  \/ LTickKnown(h)
  \/ LTickMsgs(h)

LNext ==
  \/ \E h \in Hids, kind \in HandlerKinds : LStart(h, kind)
  \/ \E h \in Hids, n \in 1..2 : LStatement(h, n)
  \/ \E h \in Hids : LSendLock(h)
  \/ \E h \in Hids : LSendDone(h)
  \/ \E h \in Hids : LTickNeighbors(h)
  \/ \E h \in Hids : LTickKnown(h)
  \/ \E h \in Hids : LTickMsgs(h)

(***************************************************************************)
(* Part IV.  src/bin/unique_ids.rs                                         *)
(***************************************************************************)

UNodes == {"n1", "n2"}

\* Slots for handlers that run at the same time, and a bound on the Generate
\* requests one node is sent.
Uhs == {"g1", "g2"}
MaxGenerate == 3

NoGen == [pc |-> "none", node |-> "", msg_id |-> 0, guid |-> ""]

\* from_init: id: 1.into()
UInit(N) ==
  /\ unodes = N
  /\ uid = [n \in UNodes |-> 1]
  /\ uh = [h \in Uhs |-> NoGen]
  /\ gen = {}

\* format!("{}-{}", self.node, ..)
Guid(node, c) == node \o "-" \o ToString(c)

\* A Generate request is dispatched to handler h of node n, and
\* message.into_reply(Some(&self.id)) takes the id of the reply from the
\* counter with a fetch_add.
Generate(h, n) ==
  /\ n \in unodes
  /\ uh[h].pc = "none"
  /\ uid[n] <= MaxGenerate
  /\ uh' = [uh EXCEPT ![h] = [pc |-> "load", node |-> n, msg_id |-> uid[n], guid |-> ""]]
  /\ uid' = [uid EXCEPT ![n] = @ + 1]
  /\ UNCHANGED <<unodes, gen, ended, lvars, bvars, kvars>>

\* let guid = format!("{}-{}", self.node, self.id.load(Ordering::SeqCst))
GenerateLoad(h) ==
  /\ uh[h].pc = "load"
  /\ uh' = [uh EXCEPT ![h].pc = "send", ![h].guid = Guid(uh[h].node, uid[uh[h].node])]
  /\ UNCHANGED <<unodes, uid, gen, ended, lvars, bvars, kvars>>

\* reply.send(&self.stdout) with GenerateOk { guid }, and the handler returns.
GenerateSend(h) ==
  /\ uh[h].pc = "send"
  /\ gen' = gen \cup {[node |-> uh[h].node, msg_id |-> uh[h].msg_id, guid |-> uh[h].guid]}
  /\ uh' = [uh EXCEPT ![h] = NoGen]
  /\ UNCHANGED <<unodes, uid, ended, lvars, bvars, kvars>>

\* handle with an event that is no Message: the let-else panics.
UEof(n) ==
  /\ n \in unodes
  /\ ended' = End(n, "eof", "panic")
  /\ UNCHANGED <<unended, kvars, bvars>>

UNext ==
  \/ \E h \in Uhs, n \in UNodes : Generate(h, n)
  \/ \E h \in Uhs : GenerateLoad(h)
  \/ \E h \in Uhs : GenerateSend(h)


(***************************************************************************)
(* Part V.  Specifications and properties                                  *)
(***************************************************************************)

\* Nothing handled yet by the programs a specification leaves out.
LOff == LInit(0)
UOff == UInit({})
Rest == ended = NoEnd /\ LOff /\ UOff

\* No log cluster / no broadcast cluster.
KOff == KInit({})
BOff == BInit(EmptyMap, {})

\* Two log nodes, empty stores.
SendInit == BOff /\ KInit(LogNodes) /\ Rest

\* The Gossip messages with something in them that the nodes of a cluster with
\* adjacency map T can write when clients broadcast the values V.
GossipMsgsOf(T, V) ==
  UNION {{GossipMsg(a, T[a][i], S) : i \in DOMAIN T[a], S \in (SUBSET V) \ {{}}} :
           a \in DOMAIN T}

\* Three nodes in a line with one value, or two nodes with two values:
\* ticks, Gossip, Topology and Broadcast.
GossipInit == (BInit(LineTopo, {1}) \/ BInit(PairTopo, Values)) /\ KOff /\ Rest
GossipSpec == GossipInit /\ [][GossipNext]_vars
GossipSpecMsgs == GossipMsgsOf(LineTopo, {1}) \cup GossipMsgsOf(PairTopo, Values)

\* Scheduling of GossipSpec: the ticker keeps injecting events, every started
\* handler runs to its end, and every Gossip message is handled; tokio's Mutex
\* queues its waiters, so a handler waiting for the known lock gets it.
GossipFair ==
  /\ GossipSpec
  /\ \A a \in BNodes : WF_vars(TickDiff(a)) /\ WF_vars(TickSend(a))
  /\ \A a \in BNodes : WF_vars(GossipMsgs(a)) /\ WF_vars(BroadcastReply(a))
  /\ \A a \in BNodes : WF_vars(TopologySet(a)) /\ WF_vars(TopologyReply(a))
  /\ \A m \in GossipSpecMsgs : SF_vars(GossipKnown(m))

\* C1: under GossipFair every node's message set eventually equals the set of
\* all values that were Broadcast, and stays equal to it.
C1_Convergence == <>[](\A a \in node_ids : msgs[a] = broadcasted)

\* A state C1 is about: in the line n1 - n2 - n3 a value was broadcast to n1
\* and acknowledged there, and every node holds it.
C1_Witness ==
  /\ node_ids = BNodes
  /\ acked["n1"] = {1}
  /\ \A a \in node_ids : msgs[a] = broadcasted

\* The neighbor the tick of a is working on.
TickNeighbor(a) == neighbors[a][tick[a].idx]

\* C5: a Gossip message written for neighbor n holds no value of K[n], and K[n]
\* never loses a value; so once K[n] holds v, no later Gossip to n holds v.
C5_Redundancy ==
  [][\A a \in BNodes :
       /\ \A p \in BNodes : known[a][p] \subseteq known'[a][p]
       /\ TickSend(a) => tick[a].seen \cap known[a][TickNeighbor(a)] = {}]_vars

\* A state C5 is about: a is about to write a Gossip for a neighbor of which it
\* believes that it knows one of a's values, and the Gossip holds another.
C5_Witness ==
  \E a \in node_ids :
    /\ tick[a].pc = "send"
    /\ known[a][TickNeighbor(a)] \cap msgs[a] # {}
    /\ tick[a].seen # {}

\* C11 as stated: in every reachable state, between the steps of concurrent
\* handlers too, every believed-known set K[p] of a node is a subset of its M.
C11_KnownSubset ==
  \A a \in BNodes : \A p \in BNodes : known[a][p] \subseteq msgs[a]

\* C15: the step of a tick that computes `seen` for neighbor n computes
\* M \ K[n]; the step that sends writes one Gossip to n holding that set, empty
\* or not; a finished tick has written exactly one Gossip per entry of N, in the
\* order of N; the two steps of the Gossip handler write no message at all.
C15_GossipTick ==
  [][\A a \in BNodes :
       /\ TickDiff(a) =>
            tick'[a].seen = msgs[a] \ known[a][TickNeighbor(a)]
       /\ TickSend(a) =>
            /\ tick'[a].out =
                 Append(tick[a].out, GossipMsg(a, TickNeighbor(a), tick[a].seen))
            /\ Len(tick'[a].out) = tick[a].idx
            /\ tick'[a].pc = "idle" =>
                 /\ Len(tick'[a].out) = Len(neighbors[a])
                 /\ \A i \in 1..Len(neighbors[a]) :
                      /\ tick'[a].out[i].src = a
                      /\ tick'[a].out[i].dest = neighbors[a][i]
       /\ (GossipMsgs(a) \/ \E m \in net : m.dest = a /\ GossipKnown(m)) =>
            /\ net' \subseteq net
            /\ acked' = acked
            /\ tick' = tick
            /\ \A t \in btasks'[a] \ btasks[a] : t.kind = "Gossip"]_vars

\* A state C15 is about: a node with two neighbors has finished a tick in which
\* the Gossip for the first neighbor was empty and the one for the second was
\* not, and a Gossip it received has been handled.
C15_Witness ==
  \E a \in node_ids :
    /\ tick[a].pc = "idle"
    /\ Len(tick[a].out) = 2
    /\ tick[a].out[1].seen = {}
    /\ tick[a].out[2].seen # {}
    /\ \E p \in node_ids : known[a][p] # {}

\* Three nodes in a line; the second round of Topology messages carries a map
\* with no entry for n3.
TopoInit == BInit(LineTopo, {1}) /\ KOff /\ Rest
TopoNext ==
  \/ GossipNext
  \/ Retopo(PairTopo)
  \/ \E a \in BNodes : TopologyMissing(a)
TopoSpec == TopoInit /\ [][TopoNext]_vars

\* C16: while the map of the Topology messages has no entry for node a, no
\* step changes the neighbor list of a, counts its Topology as handled or
\* starts a TopologyOk for it, and the step that handles the message ends in
\* a panic.
C16_TopologyMissing ==
  [][\A a \in BNodes :
       (a \in node_ids /\ a \notin DOMAIN topology) =>
         /\ neighbors'[a] = neighbors[a]
         /\ topoSeen'[a] = topoSeen[a]
         /\ BTask("Topology", {}, {}) \notin btasks'[a]
         /\ (ended' # ended /\ ended'.node = a) =>
              ended' = End(a, "topology", "panic")]_vars

\* A state C16 is about: n3, whose neighbor list was set by the first round,
\* has handled a Topology message without an entry for it.
C16_Witness ==
  /\ "n3" \notin DOMAIN topology
  /\ neighbors["n3"] = <<"n2">>
  /\ ended = End("n3", "topology", "panic")

\* Two unique-id nodes, up to MaxGenerate requests each, two handlers at a time.
UniqueInit == BOff /\ KOff /\ ended = NoEnd /\ LOff /\ UInit(UNodes)
UniqueSpec == UniqueInit /\ [][UNext]_vars

\* C19 as stated: no two GenerateOk replies written carry the same id string.
C19_UniqueGuids ==
  \A r1 \in gen : \A r2 \in gen : r1 # r2 => r1.guid # r2.guid

\* One cluster of each program: two broadcast nodes, one log node, one
\* unique-id node; EOF can come at any moment.
EofInit ==
  /\ BInit(PairTopo, {1})
  /\ KInit({"n1"})
  /\ UInit({"n1"})
  /\ ended = NoEnd
  /\ LOff
EofNext ==
  \/ GossipNext
  \/ UNext
  \/ \E a \in BNodes : BEof(a)
  \/ \E n \in LogNodes : KEof(n)
  \/ \E n \in UNodes : UEof(n)
EofSpec == EofInit /\ [][EofNext]_vars

\* C17 as stated: every step that handles an EOF event ends with success and
\* leaves the state of every node and the messages written as they were.
C17_EofNoOp ==
  [][ended'.event = "eof" /\ ended' # ended =>
       /\ ended'.result = "ok"
       /\ UNCHANGED <<bvars, kvars, uvars>>]_vars

\* Two nodes with every request kind, Read included.
BroadcastInit == BInit(PairTopo, Values) /\ KOff /\ Rest
BroadcastSpec == BroadcastInit /\ [][BNext]_vars

\* C9: the ReadOk a Read handler builds holds exactly msgs as it is at that
\* step, and with it every value the node has sent BroadcastOk for before.
C9_ReadAfterAck ==
  [][\A a \in BNodes : \A t \in btasks'[a] \ btasks[a] :
       t.kind = "Read" => t.val = msgs[a] /\ acked[a] \subseteq t.val]_vars

\* A state C9 is about: a ReadOk about to be sent, built after a BroadcastOk,
\* holding the acknowledged value and a value learned from Gossip.
C9_Witness ==
  \E a \in node_ids : \E t \in btasks[a] :
    /\ t.kind = "Read"
    /\ t.aux # {}
    /\ t.aux \subseteq t.val
    /\ t.val # t.aux

\* Two log nodes sharing the stores; clients only Send.
SendSpec == SendInit /\ [][RpcNext \/ SendNext]_vars

\* One log node that is sent MaxInFlight Sends for key "0", so that all of
\* them can run at a time.  Fair scheduling: a step of a handler that can run is taken in the
\* end; the KV services answer and the answers are delivered.
SendStep == \E t \in Tids : SendRead(t) \/ SendCas(t) \/ SendWritten(t) \/ SendReply(t)
SendFairInit == BOff /\ KInit({"n1"}) /\ Rest
SendFairNext ==
  \/ RpcNext
  \/ nreq < MaxInFlight /\ HandleSend("n1", "0")
  \/ SendStep
SendFair ==
  /\ SendFairInit
  /\ [][SendFairNext]_vars
  /\ WF_vars(RpcNext)
  /\ WF_vars(SendStep)

\* C18: under SendFair every Send request that was issued is answered with a
\* SendOk in the end (so its allocation loop has ended).
C18_SendTerminates ==
  \A r \in 1..MaxInFlight :
    (nreq >= r) ~> (r \in DOMAIN replies /\ replies[r].type = "send_ok")

\* A state C18 is about: every Send issued has replied, and they took more
\* ids than five each (reply, read, cas, two writes): a cas was tried again.
C18_Witness ==
  /\ nreq >= 2
  /\ Tids = {}
  /\ DOMAIN replies = 1..nreq
  /\ id["n1"] > 1 + 5 * nreq

\* The SendOk replies for key k, as request numbers.
SendOkOn(k) == {r \in DOMAIN replies : replies[r].key = k}

\* C2: no two SendOk replies for the same key carry the same offset.
C2_OffsetsUnique ==
  \A k \in Keys : \A r1, r2 \in SendOkOn(k) :
    r1 # r2 => replies[r1].offset # replies[r2].offset

\* A state C2 is about: two nodes answered Sends on one key that overlapped
\* (the one that arrived later got the lower offset), a third is running.
C2_Witness ==
  \E k \in Keys : \E r1, r2 \in SendOkOn(k) :
    /\ r1 < r2
    /\ replies[r1].node # replies[r2].node
    /\ replies[r1].offset > replies[r2].offset
    /\ \E t \in Tids : ktasks[t].key = k /\ ktasks[t].pc = "cas"

\* C6: when every Send on a key has been answered, the n offsets returned for
\* the key are exactly 0 .. n-1.
C6_OffsetsFromZero ==
  \A k \in Keys :
    (\A t \in Tids : ktasks[t].key # k) =>
      {replies[r].offset : r \in SendOkOn(k)} = 0 .. (Cardinality(SendOkOn(k)) - 1)

\* A state C6 is about: three Sends on one key, on both nodes, all answered.
C6_Witness ==
  \E k \in Keys :
    /\ Tids = {}
    /\ Cardinality(SendOkOn(k)) = MaxRequests
    /\ {replies[r].node : r \in SendOkOn(k)} = LogNodes

\* The message m, a reply to an RPC, is taken from the input in this step.
Consumed(m) ==
  /\ m \in wire
  /\ m.dest \in knodes
  /\ m.in_reply_to # 0
  /\ m \notin wire'

\* The RPC of handler t is completed by m in this step and nothing else
\* happens: no other handler is touched, none is started, none replies.
CompletedBy(t, m) ==
  /\ ktasks[t].node = m.dest
  /\ ktasks[t].call = m.in_reply_to
  /\ ktasks[t].st = "wait"
  /\ ktasks' = [ktasks EXCEPT ![t].st = "done", ![t].resp = m.body]
  /\ m.in_reply_to \in {e.id : e \in rpc[m.dest]}
  /\ rpc' = [rpc EXCEPT ![m.dest] = {e \in @ : e.id # m.in_reply_to}]
  /\ UNCHANGED <<id, nreq, replies, lastReply>>

\* C4: a message with in_reply_to completes the RPC with that id, of the
\* handler that issued it and of no other, once: its table entry goes, and no
\* request handler runs for it; and an RPC completes only in this way.
C4_ExactlyOnce ==
  [][/\ \A m \in wire : Consumed(m) => \E t \in Tids : CompletedBy(t, m)
     /\ \A t \in Tids \cap DOMAIN ktasks' :
          (ktasks[t].st # "done" /\ ktasks'[t].st = "done") =>
             \E m \in wire : Consumed(m) /\ CompletedBy(t, m)
     /\ \A t \in Tids :
          ktasks[t].st = "done" => ktasks[t].call \notin {e.id : e \in rpc[t[1]]}]_vars

\* A state C4 is about: of two RPCs of one node the later one was completed
\* first, the earlier one is still pending with its reply on the way.
C4_Witness ==
  \E t1, t2 \in Tids : \E m \in wire :
    /\ ktasks[t1].node = ktasks[t2].node
    /\ ktasks[t1].st = "done"
    /\ ktasks[t2].st = "wait"
    /\ ktasks[t2].call < ktasks[t1].call
    /\ m.dest = ktasks[t2].node
    /\ m.in_reply_to = ktasks[t2].call

\* The ids in the correlation table of node n; the RPCs of handlers that are
\* outstanding (issued, no reply processed yet).
TableIds(n) == {e.id : e \in rpc[n]}
Outstanding == {t \in Tids : ktasks[t].st \in {"call", "wait"}}

\* C13: the id of an outstanding RPC is in the table, from before its request
\* is written; outstanding RPCs of a node have different ids, different also
\* from the reply ids of the node's running handlers; the entry is gone once
\* the reply is processed.
C13_TableInvariant ==
  [][/\ \A t \in Outstanding : [id |-> ktasks[t].call, tx |-> t] \in rpc[t[1]]
     /\ \A m \in wire' \ wire :
          (m.src \in knodes /\ m.in_reply_to = 0) => m.id \in TableIds(m.src)
     /\ \A t1 \in Outstanding : \A t2 \in Tids :
          t1[1] = t2[1] =>
            /\ ktasks[t1].call # ktasks[t2].rid
            /\ (t2 \in Outstanding /\ t1 # t2) => ktasks[t1].call # ktasks[t2].call
     /\ \A m \in wire : Consumed(m) => m.in_reply_to \notin {e.id : e \in rpc'[m.dest]}]_vars

\* A state C13 is about: two RPCs of one node are outstanding, one registered
\* and not yet written, and a reply id was taken from the counter in between.
C13_Witness ==
  \E t1, t2 \in Outstanding :
    /\ t1[1] = t2[1]
    /\ ktasks[t1].st = "call" /\ ktasks[t2].st = "wait"
    /\ \E t \in Tids : /\ ktasks[t2].call < ktasks[t].rid
                        /\ ktasks[t].rid < ktasks[t1].call

\* Ids a stray reply can carry: never requested, completed before, or pending.
StrayIds == 1 .. (2 * MaxRequests)

\* One log node; clients Send, and replies nobody waits for arrive.
StrayNext ==
  \/ \E n \in LogNodes : HandleSend(n, "0")
  \/ \E t \in Tids : SendRead(t) \/ SendCas(t) \/ SendWritten(t) \/ SendReply(t)
  \/ \E n \in LogNodes, i \in StrayIds : HandleUnregistered(n, i)
StrayInit == BOff /\ KInit({"n1"}) /\ Rest
StraySpec == StrayInit /\ [][RpcNext \/ StrayNext]_vars

\* C12 as stated: a reply whose in_reply_to matches no table entry is reported
\* as a failure (handle returns an error), completes no pending call and
\* leaves the table unchanged.
C12_Unregistered ==
  [][\A n \in LogNodes, i \in StrayIds :
       HandleUnregistered(n, i) =>
         /\ ended'.result = "err"
         /\ rpc' = rpc
         /\ ktasks' = ktasks]_vars

\* One log node, empty stores.
LogInit == BOff /\ KInit({"n1"}) /\ Rest

\* Clients Send to key "committed" and commit an offset for key "0"; the last
\* request of a run is a Poll.
PollNext ==
  \/ \E n \in LogNodes : HandleSend(n, "committed")
  \/ \E n \in LogNodes, offsets \in PollInputs :
       nreq = MaxRequests - 1 /\ HandlePoll(n, offsets)
  \/ \E n \in LogNodes : HandleCommit(n, ("0" :> 1))
  \/ \E t \in Tids : SendRead(t) \/ SendCas(t) \/ SendWritten(t) \/ SendReply(t)
  \/ \E t \in Tids : PollRead(t)
  \/ \E t \in Tids : CommitWritten(t)
PollSpec == LogInit /\ [][RpcNext \/ PollNext]_vars

\* Clients commit and list offsets, and Send to key "committed".
CommitNext ==
  \/ \E n \in LogNodes, offsets \in CommitInputs : HandleCommit(n, offsets)
  \/ \E n \in LogNodes, keys \in ListInputs : HandleList(n, keys)
  \/ \E n \in LogNodes : HandleSend(n, "committed")
  \/ \E t \in Tids : SendRead(t) \/ SendCas(t) \/ SendWritten(t) \/ SendReply(t)
  \/ \E t \in Tids : CommitWritten(t)
  \/ \E t \in Tids : ListRead(t)
CommitSpec == LogInit /\ [][RpcNext \/ CommitNext]_vars

Range(l) == {l[i] : i \in DOMAIN l}
Window(offset) == offset .. WindowEnd(offset)

\* The handler t ends in this step.
Ends(t) == t \in Tids /\ t \notin DOMAIN ktasks'

\* C3 as stated: a Poll handled after SendOk { offset: o } for Send(key, msg),
\* asking key from f with f <= o < f + 5, returns [o, msg] in the list of key.
C3_Retrievable ==
  [][\A t \in Tids : (Ends(t) /\ ktasks[t].kind = "Poll") =>
       \A s \in ktasks[t].hist.before :
         (s[1] \in DOMAIN ktasks[t].asked /\ s[2] \in Window(ktasks[t].asked[s[1]]))
           => <<s[2], s[3]>> \in Range(lastReply'.res[s[1]])]_vars

\* C8: a Poll ends with PollOk holding a list for every requested key; a list
\* is in ascending order of offsets of the window, holds the stored entry of
\* every offset that has one and nothing for an offset that has none (offsets
\* written while the Poll ran are left open).
C8_PollGaps ==
  [][\A t \in Tids : (Ends(t) /\ ktasks[t].kind = "Poll") =>
       LET x == ktasks[t]
           r == lastReply'
       IN /\ r.type = "poll_ok" /\ r.req = x.req
          /\ DOMAIN r.res = DOMAIN x.asked
          /\ \A k \in DOMAIN x.asked :
               LET l == r.res[k]
               IN /\ \A i, j \in DOMAIN l : i < j => l[i][1] < l[j][1]
                  /\ \A i \in DOMAIN l : l[i][1] \in Window(x.asked[k])
                  /\ \A o \in Window(x.asked[k]) :
                       msg_key(k, o) \notin x.hist.dirty =>
                         IF msg_key(k, o) \in DOMAIN seq
                           THEN <<o, seq[msg_key(k, o)]>> \in Range(l)
                           ELSE \A i \in DOMAIN l : l[i][1] # o]_vars

\* A state C8 is about: a PollOk for two keys; one list has the entries of
\* offsets 0 and 1 and omits offsets 2, 3 and 4, the other list is empty.
C8_Witness ==
  /\ lastReply.type = "poll_ok"
  /\ DOMAIN lastReply.res = Keys
  /\ lastReply.res["committed"] = <<<<0, 100>>, <<1, 200>>>>
  /\ lastReply.res["0"] = <<>>

\* C7 as stated: after an acknowledged CommitOffsets({k: n}) with no other
\* commit for k since, ListCommittedOffsets returns n for k.
C7_RoundTrip ==
  [][\A t \in Tids : (Ends(t) /\ ktasks[t].kind = "List") =>
       \A k \in KeySet(ktasks[t].asked) :
         ktasks[t].hist.expect[k] # Unknown =>
           lastReply'.res[k] = ktasks[t].hist.expect[k]]_vars

\* C10: a ListCommittedOffsets ends with ListCommittedOffsetsOk holding one
\* entry for every requested key: the stored committed:{key}, or 0 when there
\* is none (keys written while the handler ran are left open).
C10_ListDefaults ==
  [][\A t \in Tids : (Ends(t) /\ ktasks[t].kind = "List") =>
       LET x == ktasks[t]
           r == lastReply'
       IN /\ r.type = "list_committed_offsets_ok" /\ r.req = x.req
          /\ DOMAIN r.res = KeySet(x.asked)
          /\ \A k \in KeySet(x.asked) :
               committed_key(k) \notin x.hist.dirty =>
                 r.res[k] = IF committed_key(k) \in DOMAIN seq
                              THEN seq[committed_key(k)] ELSE 0]_vars

\* A state C10 is about: a reply for two keys, one committed at 2, the other
\* with no committed:{key} entry and reported as 0.
C10_Witness ==
  /\ lastReply.type = "list_committed_offsets_ok"
  /\ lastReply.res = ("0" :> 2) @@ ("committed" :> 0)
  /\ committed_key("0") \in DOMAIN seq
  /\ committed_key("committed") \notin DOMAIN seq

\* One broadcast node, locks only: up to three handlers at a time.
LockInit == BOff /\ KOff /\ ended = NoEnd /\ UOff /\ LInit(0)
LockSpec == LockInit /\ [][LNext]_vars

\* tokio runs every handler that can go on, and its Mutex serves waiters in
\* the order they came.
LockFair == LockSpec /\ \A h \in Hids : WF_vars(LStep(h))

\* The handler h waits for in a lock().await that cannot return now.
WaitsFor(h) ==
  IF hs[h].kind # "none" /\ hs[h].pc \in LockNames /\ lock[hs[h].pc] # "free"
    THEN {lock[hs[h].pc]} ELSE {}

\* The handler is suspended: in lock().await, or in the write of Message::send.
Suspended(h) == WaitsFor(h) # {} \/ (hs[h].kind # "none" /\ hs[h].pc = "write")

\* C14 as stated: no handler has the guard of a state field alive while it is
\* suspended waiting for another lock or for the output sink.
C14_LockDiscipline ==
  \A h \in Hids : Suspended(h) => \A l \in FieldLocks : lock[l] # h

\* No set of handlers each waits for a lock held by one of the set.
NoWaitCycle ==
  \A S \in (SUBSET Hids) \ {{}} :
    ~(\A h \in S : WaitsFor(h) # {} /\ WaitsFor(h) \subseteq S)

\* C20: no reachable state has a set of handlers each waiting for a lock held
\* by another of them, and under LockFair every started handler finishes.
C20_DeadlockFree ==
  /\ []NoWaitCycle
  /\ \A h \in Hids : (hs[h].kind # "none") ~> (hs[h].kind = "none")

\* A state C20 is about: a chain of waits that is no cycle: a handler waits
\* for a lock of a tick, which waits for stdout, held by a third handler.
C20_Witness ==
  \E h1, h2, h3 \in Hids :
    /\ h1 # h2 /\ h2 # h3 /\ h1 # h3
    /\ WaitsFor(h1) = {h2}
    /\ WaitsFor(h2) = {h3}
    /\ hs[h3].pc = "write"

====
